---- MODULE Spec2Model ----
(***************************************************************************)
(* The order form of webhook_tester.py (class WebhookApp) as a state       *)
(* machine: the Tk variables of the form, the widget states the handlers   *)
(* configure, and the position of send_webhook around its blocking         *)
(* requests.post call.                                                     *)
(*                                                                         *)
(* Text that the code parses (the quantity entry, the leverage value) is   *)
(* the sequence of the code points of its characters, as ord() gives them, *)
(* so that float() and int() are computed from the characters and any      *)
(* character of Unicode can stand in a text.  Every other Tk variable is a *)
(* string.                                                                 *)
(***************************************************************************)
EXTENDS Integers, Sequences, FiniteSets, TLC

VARIABLES
    variables,   \* self.variables: the Tk variables of the form
    widgets,     \* widget options the handlers configure
    pc,          \* "idle": in mainloop; "sending": inside requests.post
    payload,     \* the document handed to requests.post while pc = "sending"
    dialog,      \* the messagebox the last handler showed, if any
    lastEvent    \* history: the last handler run and the form it started from

vars == <<variables, widgets, pc, payload, dialog, lastEvent>>

----------------------------------------------------------------------------
(* Bounds of the model *)

\* Longest quantity text that is enumerated character by character.
MaxQtyLen == 3

\* How many of the quantity presets, and of the leverage values, the user
\* picks from in the runs of the form (the first ones of each list).
NumPresets == 2
NumLeverages == 2

----------------------------------------------------------------------------
(* Texts *)

\* The printable characters of ASCII in the order of their code points:
\* from the space, U+0020, to the underscore, U+005F, and from the letter
\* a, U+0061, to the tilde, U+007E.
PrintableFromSpace ==
    << " ", "!", "\"", "#", "$", "%", "&", "'", "(", ")", "*", "+", ",", "-", ".", "/",
       "0", "1", "2", "3", "4", "5", "6", "7", "8", "9", ":", ";", "<", "=", ">", "?",
       "@", "A", "B", "C", "D", "E", "F", "G", "H", "I", "J", "K", "L", "M", "N", "O",
       "P", "Q", "R", "S", "T", "U", "V", "W", "X", "Y", "Z", "[", "\\", "]", "^", "_" >>

PrintableFromA ==
    << "a", "b", "c", "d", "e", "f", "g", "h", "i", "j", "k", "l", "m", "n", "o", "p",
       "q", "r", "s", "t", "u", "v", "w", "x", "y", "z", "{", "|", "}", "~" >>

\* ord() of a printable character of ASCII
Ord ==
    [ c \in { PrintableFromSpace[i] : i \in DOMAIN PrintableFromSpace }
              \cup { PrintableFromA[i] : i \in DOMAIN PrintableFromA } |->
        IF \E i \in DOMAIN PrintableFromA : PrintableFromA[i] = c
        THEN 96 + CHOOSE i \in DOMAIN PrintableFromA : PrintableFromA[i] = c
        ELSE 31 + CHOOSE i \in DOMAIN PrintableFromSpace : PrintableFromSpace[i] = c ]

\* The text that the characters s spell: Text(<<"7","5","%">>) is '75%'.
Text(s) == [ i \in DOMAIN s |-> Ord[s[i]] ]

----------------------------------------------------------------------------
(* Constants of the program *)

WEBHOOK_URL == "https://webhook.quantmarketintelligence.com/"
AUTH_TOKEN == "z8V%kewzQ%m%XKdMJGdWtbX8!V8ZKqHz"

trading_pairs ==
    [ spot     |-> <<"BTC-USDT", "ETH-USDT">>,
      perps    |-> <<"BTC-USDT-SWAP", "ETH-USDT-SWAP", "BTC-USD-SWAP", "ETH-USD-SWAP">>,
      invperps |-> <<"BTC-USD-SWAP", "ETH-USD-SWAP">> ]

qty_presets ==
    << Text(<<"1","0","0","%">>), Text(<<"7","5","%">>), Text(<<"5","0","%">>),
       Text(<<"2","5","%">>), Text(<<"1","0","%">>), Text(<<"5","%">>) >>

exchange_values == <<"okx", "binance">>
type_values == <<"spot", "perps", "invperps">>
side_values == <<"buy", "sell">>
margin_mode_values == <<"cross", "isolated">>
leverage_values ==
    << Text(<<"1">>), Text(<<"2">>), Text(<<"3">>), Text(<<"5">>), Text(<<"1","0">>), Text(<<"2","0">>),
       Text(<<"5","0">>), Text(<<"7","5">>), Text(<<"1","0","0">>), Text(<<"1","2","5">>) >>

Range(s) == { s[i] : i \in DOMAIN s }

\* dict.get(key, []) on self.trading_pairs
TradingPairsGet(trade_type) ==
    IF trade_type \in DOMAIN trading_pairs THEN trading_pairs[trade_type] ELSE << >>

----------------------------------------------------------------------------
(* float() and int() of Python on a text, computed from its characters *)

\* The digit zero of every set of decimal digits of Unicode (category Nd);
\* the digits one to nine of a set follow its zero.  float() and int() read
\* a digit of any set as the ASCII digit of its value.
DecimalZeros ==
    { 48, 1632, 1776, 1984, 2406, 2534, 2662, 2790, 2918, 3046,
      3174, 3302, 3430, 3558, 3664, 3792, 3872, 4160, 4240, 6112,
      6160, 6470, 6608, 6784, 6800, 6992, 7088, 7232, 7248, 42528,
      43216, 43264, 43472, 43504, 43600, 44016, 65296, 66720, 68912, 69734,
      69872, 69942, 70096, 70384, 70736, 70864, 71248, 71360, 71472, 71904,
      72016, 72784, 73040, 73120, 92768, 92864, 93008, 120782, 120792, 120802,
      120812, 120822, 123200, 123632, 125264, 130032 }

Digits == UNION { z..(z + 9) : z \in DecimalZeros }

DigitVal(c) == c - (CHOOSE z \in DecimalZeros : c \in z..(z + 9))

\* The characters float() and int() strip from both ends of a text: the
\* whitespace of ASCII (tab, line feed, vertical tab, form feed, carriage
\* return, space) and the whitespace of Unicode beyond ASCII, U+0085,
\* U+00A0, U+1680, U+2000..U+200A, U+2028, U+2029, U+202F, U+205F, U+3000.
\* The separators U+001C..U+001F are not stripped.
Whitespace ==
    {9, 10, 11, 12, 13, 32, 133, 160, 5760} \cup 8192..8202
        \cup {8232, 8233, 8239, 8287, 12288}

\* The case-insensitive match of inf, infinity and nan folds the capital
\* letters of ASCII.
Lower(c) == IF c \in Ord["A"]..Ord["Z"] THEN c + (Ord["a"] - Ord["A"]) ELSE c

LowerSeq(s) == [ i \in DOMAIN s |-> Lower(s[i]) ]

\* The text from its first to its last character that is not whitespace
Strip(s) ==
    IF \A i \in DOMAIN s : s[i] \in Whitespace THEN << >>
    ELSE SubSeq(s,
           CHOOSE i \in DOMAIN s :
               s[i] \notin Whitespace /\ \A j \in 1..(i - 1) : s[j] \in Whitespace,
           CHOOSE i \in DOMAIN s :
               s[i] \notin Whitespace /\ \A j \in (i + 1)..Len(s) : s[j] \in Whitespace)

\* A digit group: digits, single underscores allowed between two digits.
IsDigitGroup(s) ==
    /\ s # << >>
    /\ s[1] \in Digits
    /\ s[Len(s)] \in Digits
    /\ \A i \in DOMAIN s : s[i] \in Digits \cup {Ord["_"]}
    /\ \A i \in 1..(Len(s) - 1) : ~(s[i] = Ord["_"] /\ s[i + 1] = Ord["_"])

DigitCount(s) == Cardinality({ i \in DOMAIN s : s[i] \in Digits })

\* Position of the first character of s that is in the set cs, 0 when none.
FirstIn(s, cs) ==
    IF \E i \in DOMAIN s : s[i] \in cs
    THEN CHOOSE i \in DOMAIN s : s[i] \in cs /\ \A j \in 1..(i - 1) : s[j] \notin cs
    ELSE 0

HasSign(s) == s # << >> /\ s[1] \in {Ord["+"], Ord["-"]}
Unsigned(s) == IF HasSign(s) THEN Tail(s) ELSE s
IsNeg(s) == s # << >> /\ s[1] = Ord["-"]

\* The digits of a digit text as numbers, underscores and dots dropped.
DigitSeq(s) ==
    LET IsDigit(c) == c \in Digits
        ds == SelectSeq(s, IsDigit)
    IN  [ i \in DOMAIN ds |-> DigitVal(ds[i]) ]

\* The digits d from the first one that is not zero
DropZeros(d) ==
    IF \A i \in DOMAIN d : d[i] = 0 THEN << >>
    ELSE SubSeq(d, CHOOSE i \in DOMAIN d : d[i] # 0 /\ \A j \in 1..(i - 1) : d[j] = 0,
                Len(d))

\* The number written by the digits d
RECURSIVE DigitsVal(_)
DigitsVal(d) ==
    IF d = << >> THEN 0 ELSE 10 * DigitsVal(SubSeq(d, 1, Len(d) - 1)) + d[Len(d)]

\* The number the exponent digits x are read as.  The strtod of CPython
\* (Python/dtoa.c) skips the leading zeros, reads an exponent of up to nine
\* digits as written, and holds a longer one at its MAX_ABS_EXP, 1100000000.
ExponentVal(x) ==
    LET d == DropZeros(DigitSeq(x))
    IN  IF Len(d) > 9 THEN 1100000000 ELSE DigitsVal(d)

FloatError == [ok |-> FALSE, kind |-> "error", neg |-> FALSE, digs |-> << >>, mag |-> 0]

\* The mantissa text m (no sign, no exponent) and the exponent text x
\* ("" when there is none) of a decimal literal.
MantissaOK(m) ==
    LET dot == FirstIn(m, {Ord["."]})
        ip  == IF dot = 0 THEN m ELSE SubSeq(m, 1, dot - 1)
        fp  == IF dot = 0 THEN << >> ELSE SubSeq(m, dot + 1, Len(m))
    IN  IF dot = 0 THEN IsDigitGroup(ip)
        ELSE \/ IsDigitGroup(ip) /\ (fp = << >> \/ IsDigitGroup(fp))
             \/ ip = << >> /\ IsDigitGroup(fp)

ExponentOK(x) == IsDigitGroup(Unsigned(x))

\* float(text): inf, nan, ValueError (ok = FALSE), or the decimal that the
\* text writes, kept exactly: a sign, the significant digits digs (no
\* leading zero; empty for zero) and the magnitude mag, the value being
\* 0.d1 d2 ... dn * 10^mag.  What the rounding to binary64 does to a
\* comparison is decided by the comparisons below.  The strtod of CPython
\* (Python/dtoa.c) refuses a literal of more than MAX_DIGITS, 1000000000,
\* digits after its leading zeros, or after its point: ValueError.
PyFloat(text) ==
    LET s    == Strip(text)
        body == Unsigned(s)
        low  == LowerSeq(body)
        epos == FirstIn(body, {Ord["e"], Ord["E"]})
        m    == IF epos = 0 THEN body ELSE SubSeq(body, 1, epos - 1)
        x    == IF epos = 0 THEN << >> ELSE SubSeq(body, epos + 1, Len(body))
        dot  == FirstIn(m, {Ord["."]})
        fp   == IF dot = 0 THEN << >> ELSE SubSeq(m, dot + 1, Len(m))
        ex   == IF epos = 0 THEN 0
                ELSE IF IsNeg(x) THEN 0 - ExponentVal(Unsigned(x)) ELSE ExponentVal(Unsigned(x))
        digs == DropZeros(DigitSeq(m))
    IN  IF low \in { Text(<<"i","n","f">>), Text(<<"i","n","f","i","n","i","t","y">>) }
        THEN [ok |-> TRUE, kind |-> "inf", neg |-> IsNeg(s), digs |-> << >>, mag |-> 0]
        ELSE IF low = Text(<<"n","a","n">>)
        THEN [ok |-> TRUE, kind |-> "nan", neg |-> IsNeg(s), digs |-> << >>, mag |-> 0]
        ELSE IF /\ MantissaOK(m) /\ (epos = 0 \/ ExponentOK(x))
                /\ Len(digs) <= 1000000000 /\ DigitCount(fp) <= 1000000000
        THEN [ok |-> TRUE, kind |-> "finite", neg |-> IsNeg(s),
              digs |-> digs, mag |-> Len(digs) + ex - DigitCount(fp)]
        ELSE FloatError

\* The i-th digit after the point of 0.d1 d2 ... dn
DigitAt(d, i) == IF i <= Len(d) THEN d[i] ELSE 0

\* 0.a1 a2 ... <= 0.b1 b2 ...
FractionLeq(a, b) ==
    LET n    == IF Len(a) > Len(b) THEN Len(a) ELSE Len(b)
        diff == { i \in 1..n : DigitAt(a, i) # DigitAt(b, i) }
    IN  \/ diff = {}
        \/ LET k == CHOOSE i \in diff : \A j \in diff : i <= j
           IN  DigitAt(a, k) < DigitAt(b, k)

\* A positive decimal v against the positive decimal 0.tdigs * 10^tmag
DecimalLeq(v, tdigs, tmag) ==
    IF v.mag # tmag THEN v.mag < tmag ELSE FractionLeq(v.digs, tdigs)

\* Half of the least positive binary64, 2^-1075 = 5^1075 / 10^1075: the 752
\* digits of 5^1075, the value being 0.2470328... * 10^-323.
HalfLeastSubnormal ==
    << 2,4,7,0,3,2,8,2,2,9,2,0,6,2,3,2,7,2,0,8,8,2,8,4,3,9,6,4,3,4,1,1,0,6,8,
       6,1,8,2,5,2,9,9,0,1,3,0,7,1,6,2,3,8,2,2,1,2,7,9,2,8,4,1,2,5,0,3,3,7,7,
       5,3,6,3,5,1,0,4,3,7,5,9,3,2,6,4,9,9,1,8,1,8,0,8,1,7,9,9,6,1,8,9,8,9,8,
       2,8,2,3,4,7,7,2,2,8,5,8,8,6,5,4,6,3,3,2,8,3,5,5,1,7,7,9,6,9,8,9,8,1,9,
       9,3,8,7,3,9,8,0,0,5,3,9,0,9,3,9,0,6,3,1,5,0,3,5,6,5,9,5,1,5,5,7,0,2,2,
       6,3,9,2,2,9,0,8,5,8,3,9,2,4,4,9,1,0,5,1,8,4,4,3,5,9,3,1,8,0,2,8,4,9,9,
       3,6,5,3,6,1,5,2,5,0,0,3,1,9,3,7,0,4,5,7,6,7,8,2,4,9,2,1,9,3,6,5,6,2,3,
       6,6,9,8,6,3,6,5,8,4,8,0,7,5,7,0,0,1,5,8,5,7,6,9,2,6,9,9,0,3,7,0,6,3,1,
       1,9,2,8,2,7,9,5,5,8,5,5,1,3,3,2,9,2,7,8,3,4,3,3,8,4,0,9,3,5,1,9,7,8,0,
       1,5,5,3,1,2,4,6,5,9,7,2,6,3,5,7,9,5,7,4,6,2,2,7,6,6,4,6,5,2,7,2,8,2,7,
       2,2,0,0,5,6,3,7,4,0,0,6,4,8,5,4,9,9,9,7,7,0,9,6,5,9,9,4,7,0,4,5,4,0,2,
       0,8,2,8,1,6,6,2,2,6,2,3,7,8,5,7,3,9,3,4,5,0,7,3,6,3,3,9,0,0,7,9,6,7,7,
       6,1,9,3,0,5,7,7,5,0,6,7,4,0,1,7,6,3,2,4,6,7,3,6,0,0,9,6,8,9,5,1,3,4,0,
       5,3,5,5,3,7,4,5,8,5,1,6,6,6,1,1,3,4,2,2,3,7,6,6,6,7,8,6,0,4,1,6,2,1,5,
       9,6,8,0,4,6,1,9,1,4,4,6,7,2,9,1,8,4,0,3,0,0,5,3,0,0,5,7,5,3,0,8,4,9,0,
       4,8,7,6,5,3,9,1,7,1,1,3,8,6,5,9,1,6,4,6,2,3,9,5,2,4,9,1,2,6,2,3,6,5,3,
       8,8,1,8,7,9,6,3,6,2,3,9,3,7,3,2,8,0,4,2,3,8,9,1,0,1,8,6,7,2,3,4,8,4,9,
       7,6,6,8,2,3,5,0,8,9,8,6,3,3,8,8,5,8,7,9,2,5,6,2,8,3,0,2,7,5,5,9,9,5,6,
       5,7,5,2,4,4,5,5,5,0,7,2,5,5,1,8,9,3,1,3,6,9,0,8,3,6,2,5,4,7,7,9,1,8,6,
       9,4,8,6,6,7,9,9,4,9,6,8,3,2,4,0,4,9,7,0,5,8,2,1,0,2,8,5,1,3,1,8,5,4,5,
       1,3,9,6,2,1,3,8,3,7,7,2,2,8,2,6,1,4,5,4,3,7,6,9,3,4,1,2,5,3,2,0,9,8,5,
       9,1,3,2,7,6,6,7,2,3,6,3,2,8,1,2,5 >>
HalfLeastSubnormalMag == Len(HalfLeastSubnormal) - 1075

\* 100 and half of the gap to the binary64 above it, 100 + 2^-47, where
\* 2^-47 = 5^47 / 10^47: fourteen zero places and the 33 digits of 5^47.
HundredAndHalfUlp ==
    << 1,0,0, 0,0,0,0,0,0,0,0,0,0,0,0,0,0,
       7,1,0,5,4,2,7,3,5,7,6,0,1,0,0,1,8,5,8,7,1,1,2,4,2,6,7,5,7,8,1,2,5 >>

\* The decimal rounds to the binary64 zero: it is at most half of the least
\* positive binary64 (zero is the even neighbour at the tie).
RoundsToZero(v) ==
    \/ v.digs = << >>
    \/ DecimalLeq(v, HalfLeastSubnormal, HalfLeastSubnormalMag)

\* v <= 100 for a finite v of positive mantissa: the decimal rounds to a
\* binary64 that is at most 100 (100 is the even neighbour at the tie).
MagnitudeLeq100(v) == DecimalLeq(v, HundredAndHalfUlp, 3)

\* 0 < v
FloatGtZero(v) ==
    CASE v.kind = "nan" -> FALSE
      [] v.kind = "inf" -> ~v.neg
      [] OTHER -> ~v.neg /\ ~RoundsToZero(v)

\* v <= 0
FloatLeZero(v) ==
    CASE v.kind = "nan" -> FALSE
      [] v.kind = "inf" -> v.neg
      [] OTHER -> v.neg \/ RoundsToZero(v)

\* v <= 100
FloatLeHundred(v) ==
    CASE v.kind = "nan" -> FALSE
      [] v.kind = "inf" -> v.neg
      [] OTHER -> v.neg \/ RoundsToZero(v) \/ MagnitudeLeq100(v)

\* int(text): [ok, val]; ok = FALSE is ValueError, which a text of more
\* than 4300 digits also raises (sys.int_info.default_max_str_digits).  The
\* value is the number the significant digits write.
PyInt(text) ==
    LET s == Strip(text)
        n == DigitsVal(DropZeros(DigitSeq(Unsigned(s))))
    IN  IF IsDigitGroup(Unsigned(s)) /\ DigitCount(Unsigned(s)) <= 4300
        THEN [ok |-> TRUE, val |-> IF IsNeg(s) THEN 0 - n ELSE n]
        ELSE [ok |-> FALSE, val |-> 0]

\* str.endswith('%')
EndsWithPercent(s) == s # << >> /\ s[Len(s)] = Ord["%"]

----------------------------------------------------------------------------
(* The form: __init__ and build_form *)

InitVariables ==
    [ exchange_var       |-> "okx",
      type_var           |-> "spot",
      symbol_var         |-> "",
      side_var           |-> "",
      qty_var            |-> << >>,
      margin_mode_var    |-> "cross",
      leverage_var       |-> Text(<<"1","0">>),
      close_position_var |-> FALSE ]

\* A plausible change: build_form fills the symbol dropdown with the symbols
\* of the initial trade type.
InitWidgets_WithSymbols ==
    [ symbol_values     |-> trading_pairs["spot"],
      side_state        |-> "readonly",
      qty_state         |-> "normal",
      margin_mode_state |-> "readonly",
      leverage_state    |-> "readonly" ]

\* The options build_form gives the widgets the handlers later configure.
InitWidgets ==
    [ symbol_values     |-> << >>,
      side_state        |-> "readonly",
      qty_state         |-> "normal",
      margin_mode_state |-> "readonly",
      leverage_state    |-> "readonly" ]

NoPayload == << >>
NoDialog == [kind |-> "none", title |-> "", message |-> "", detail |-> ""]

Event(op, before) == [op |-> op, before |-> before]

Init ==
    /\ variables = InitVariables
    /\ widgets = InitWidgets
    /\ pc = "idle"
    /\ payload = NoPayload
    /\ dialog = NoDialog
    /\ lastEvent = Event("init", InitVariables)

----------------------------------------------------------------------------
(* on_type_change *)

\* Lines 178-183: the value list of the symbol dropdown.
TypeChangeSymbolValues(v) == TradingPairsGet(v.type_var)

\* A plausible slip: the value list is replaced, the selection is not.
TypeChangeSymbol_Kept(v) == v.symbol_var

\* The rule of selecting anew only when the old symbol is not in the new list.
TypeChangeSymbol_IfInvalid(v) ==
    LET symbol_pairs == TradingPairsGet(v.type_var)
    IN  IF symbol_pairs # << >> /\ v.symbol_var \notin Range(symbol_pairs)
        THEN symbol_pairs[1] ELSE v.symbol_var

\* Lines 182-183: the symbol selected after the change.
TypeChangeSymbol(v) ==
    LET symbol_pairs == TradingPairsGet(v.type_var)
    IN  IF symbol_pairs # << >> THEN symbol_pairs[1] ELSE v.symbol_var

\* A plausible slip: a margin-capable type only unlocks the two dropdowns
\* and sets the defaults when coming from values no margin type can have.
TypeChangeMargin_Keeping(v, w) ==
    IF v.type_var = "spot"
    THEN [ margin_mode_var |-> "cash", leverage_var |-> Text(<<"1">>),
           margin_mode_state |-> "disabled", leverage_state |-> "disabled" ]
    ELSE IF v.margin_mode_var \in Range(margin_mode_values)
    THEN [ margin_mode_var |-> v.margin_mode_var, leverage_var |-> v.leverage_var,
           margin_mode_state |-> "readonly", leverage_state |-> "readonly" ]
    ELSE [ margin_mode_var |-> "cross", leverage_var |-> Text(<<"1","0">>),
           margin_mode_state |-> "readonly", leverage_state |-> "readonly" ]

\* Lines 185-195: margin mode, leverage and the state of their two dropdowns.
TypeChangeMargin(v, w) ==
    IF v.type_var = "spot"
    THEN [ margin_mode_var |-> "cash", leverage_var |-> Text(<<"1">>),
           margin_mode_state |-> "disabled", leverage_state |-> "disabled" ]
    ELSE [ margin_mode_var |-> "cross", leverage_var |-> Text(<<"1","0">>),
           margin_mode_state |-> "readonly", leverage_state |-> "readonly" ]

\* The handler on the form v and widgets w: the form and widgets it leaves.
on_type_change(v, w) ==
    LET m == TypeChangeMargin(v, w)
    IN  [ v |-> [ v EXCEPT !.symbol_var = TypeChangeSymbol(v),
                           !.margin_mode_var = m.margin_mode_var,
                           !.leverage_var = m.leverage_var ],
          w |-> [ w EXCEPT !.symbol_values = TypeChangeSymbolValues(v),
                           !.margin_mode_state = m.margin_mode_state,
                           !.leverage_state = m.leverage_state ] ]

----------------------------------------------------------------------------
(* on_close_position_toggle, with the flag as the checkbutton has set it *)

\* A plausible slip: closing also wipes the side and quantity entered.
on_close_position_toggle_Clearing(v, w) ==
    LET is_closing == v.close_position_var
    IN  [ v |-> IF is_closing THEN [v EXCEPT !.side_var = "", !.qty_var = << >>] ELSE v,
          w |-> [ w EXCEPT !.side_state = IF is_closing THEN "disabled" ELSE "readonly",
                           !.qty_state  = IF is_closing THEN "disabled" ELSE "normal" ] ]

\* The handler reads the flag and configures the two widgets; it sets no
\* variable of the form.
on_close_position_toggle(v, w) ==
    LET is_closing == v.close_position_var
    IN  [ v |-> v,
          w |-> [ w EXCEPT !.side_state = IF is_closing THEN "disabled" ELSE "readonly",
                           !.qty_state  = IF is_closing THEN "disabled" ELSE "normal" ] ]

----------------------------------------------------------------------------
(* clear_form *)

\* A plausible change: clearing puts back the values of __init__.
ClearedVariables_Defaults == InitVariables

\* Lines 208-212: every StringVar to '', the BooleanVar to False.
ClearedVariables ==
    [ exchange_var       |-> "",
      type_var           |-> "",
      symbol_var         |-> "",
      side_var           |-> "",
      qty_var            |-> << >>,
      margin_mode_var    |-> "",
      leverage_var       |-> << >>,
      close_position_var |-> FALSE ]

clear_form(v, w) == on_type_change(ClearedVariables, w)

----------------------------------------------------------------------------
(* validate_input: <<valid, error message>> *)

MsgExchange == "Please select an exchange"
MsgType == "Please select a trade type"
MsgSymbol == "Please select a trading pair"
MsgSide == "Please select a side"
MsgQuantity == "Please enter a quantity"
MsgPercentRange == "Percentage must be between 0 and 100"
MsgPercentFormat == "Invalid percentage format"
MsgQuantityRange == "Quantity must be greater than 0"
MsgQuantityFormat == "Invalid quantity format"

\* Lines 230-245: the quantity checks on a non-empty text.
ValidateQuantity(qty) ==
    IF EndsWithPercent(qty)
    THEN LET pct == PyFloat(SubSeq(qty, 1, Len(qty) - 1))
         IN  IF ~pct.ok THEN <<FALSE, MsgPercentFormat>>
             ELSE IF ~(FloatGtZero(pct) /\ FloatLeHundred(pct))
                  THEN <<FALSE, MsgPercentRange>>
                  ELSE <<TRUE, "">>
    ELSE LET amt == PyFloat(qty)
         IN  IF ~amt.ok THEN <<FALSE, MsgQuantityFormat>>
             ELSE IF FloatLeZero(amt) THEN <<FALSE, MsgQuantityRange>>
                  ELSE <<TRUE, "">>

\* A plausible slip: the trade type is checked before the exchange.
validate_input_TypeFirst(v) ==
    IF v.type_var = "" THEN <<FALSE, MsgType>>
    ELSE IF v.exchange_var = "" THEN <<FALSE, MsgExchange>>
    ELSE IF v.symbol_var = "" THEN <<FALSE, MsgSymbol>>
    ELSE IF ~v.close_position_var
         THEN IF v.side_var = "" THEN <<FALSE, MsgSide>>
              ELSE IF v.qty_var = << >> THEN <<FALSE, MsgQuantity>>
              ELSE ValidateQuantity(v.qty_var)
         ELSE <<TRUE, "">>

\* A plausible slip: side and quantity are checked also when closing.
validate_input_NoSkip(v) ==
    IF v.exchange_var = "" THEN <<FALSE, MsgExchange>>
    ELSE IF v.type_var = "" THEN <<FALSE, MsgType>>
    ELSE IF v.symbol_var = "" THEN <<FALSE, MsgSymbol>>
    ELSE IF v.side_var = "" THEN <<FALSE, MsgSide>>
    ELSE IF v.qty_var = << >> THEN <<FALSE, MsgQuantity>>
    ELSE ValidateQuantity(v.qty_var)

validate_input(v) ==
    IF v.exchange_var = "" THEN <<FALSE, MsgExchange>>
    ELSE IF v.type_var = "" THEN <<FALSE, MsgType>>
    ELSE IF v.symbol_var = "" THEN <<FALSE, MsgSymbol>>
    ELSE IF ~v.close_position_var
         THEN IF v.side_var = "" THEN <<FALSE, MsgSide>>
              ELSE IF v.qty_var = << >> THEN <<FALSE, MsgQuantity>>
              ELSE ValidateQuantity(v.qty_var)
         ELSE <<TRUE, "">>

----------------------------------------------------------------------------
(* send_webhook *)

\* Lines 256-262
PayloadBase(v) ==
    [ authToken  |-> AUTH_TOKEN,
      exchange   |-> v.exchange_var,
      symbol     |-> v.symbol_var,
      type       |-> v.type_var,
      marginMode |-> v.margin_mode_var ]

\* A plausible slip: leverage added whatever the type.
PayloadLeverage_Always(doc, v) == [leverage |-> PyInt(v.leverage_var).val] @@ doc

\* Lines 265-266, given that int() returned
PayloadLeverage(doc, v) ==
    IF doc.type # "spot"
    THEN [leverage |-> PyInt(v.leverage_var).val] @@ doc
    ELSE doc

\* A plausible slip: closing adds closePosition on top of the side and
\* quantity still held in the form.
PayloadOrder_StaleOrder(doc, v) ==
    IF ~v.close_position_var
    THEN [side |-> v.side_var, qty |-> v.qty_var] @@ doc
    ELSE [closePosition |-> TRUE, side |-> v.side_var, qty |-> v.qty_var] @@ doc

\* Lines 269-275
PayloadOrder(doc, v) ==
    IF ~v.close_position_var
    THEN [side |-> v.side_var, qty |-> v.qty_var] @@ doc
    ELSE [closePosition |-> TRUE] @@ doc

\* Whether int() at line 266 raises ValueError, which ends the handler.
LeverageRaises(v) == v.type_var # "spot" /\ ~PyInt(v.leverage_var).ok

BuildPayload(v) == PayloadOrder(PayloadLeverage(PayloadBase(v), v), v)

\* A plausible slip: the early return after the error dialog is missing.
SubmitProceeds_NoReturn(v) == TRUE

\* Lines 250-253: whether the handler goes on after validate_input.
SubmitProceeds(v) == validate_input(v)[1]

\* Lines 249-286, to the point where requests.post is entered or the
\* handler has returned: the position, the document and the dialog shown.
SendWebhookCall(v) ==
    IF ~SubmitProceeds(v)
    THEN [ pc |-> "idle", payload |-> NoPayload,
           dialog |-> [kind |-> "error", title |-> "Validation Error",
                       message |-> validate_input(v)[2], detail |-> ""] ]
    ELSE IF LeverageRaises(v)
    THEN [ pc |-> "idle", payload |-> NoPayload,
           dialog |-> [kind |-> "traceback", title |-> "", message |-> "ValueError",
                       detail |-> ""] ]
    ELSE [ pc |-> "sending", payload |-> BuildPayload(v), dialog |-> NoDialog ]

\* What requests.post can do: return a response (ok or not, with a body)
\* or raise.
Responses ==
    { [kind |-> "ok", text |-> "accepted"],
      [kind |-> "not_ok", text |-> "rejected"],
      [kind |-> "exception", text |-> "connection error"] }

\* Lines 288-299
ResponseDialog(r) ==
    CASE r.kind = "ok" ->
           [kind |-> "info", title |-> "Success",
            message |-> "Order sent successfully!", detail |-> ""]
      [] r.kind = "not_ok" ->
           [kind |-> "error", title |-> "Error",
            message |-> "Failed to send order: ", detail |-> r.text]
      [] r.kind = "exception" ->
           [kind |-> "error", title |-> "Error",
            message |-> "Failed to send webhook: ", detail |-> r.text]

----------------------------------------------------------------------------
(* Inputs *)

\* Quantity texts the user types into the entry in the runs of the form.
QtySamples ==
    { << >>, Text(<<"1",".","5">>), Text(<<"0">>), Text(<<"1","5","0","%">>), Text(<<"a","b","c">>),
      Text(<<"a","b","c","%">>), Text(<<"n","a","n">>) }

\* Characters of the quantity texts that are enumerated exhaustively.
QtyAlphabet == { Ord[c] : c \in {"0", "1", "5", ".", "-", "%", "n", "a"} }

RECURSIVE TextsUpTo(_)
TextsUpTo(n) ==
    IF n = 0 THEN { << >> }
    ELSE LET shorter == TextsUpTo(n - 1)
         IN  shorter \cup { Append(t, c) : t \in shorter, c \in QtyAlphabet }

PresetInputs == { qty_presets[i] : i \in 1..NumPresets }
LeverageInputs == { leverage_values[i] : i \in 1..NumLeverages }

\* Texts at the edges of float(): whitespace around the number (a tab
\* before it, an em space, U+2003, before it, a line feed after the percent
\* sign, where the text no longer ends with the sign), digits of another
\* set (the fullwidth 100%), an exponent of ten digits, and decimals that
\* round to the binary64 zero, to the least positive one, to 100 and to the
\* one above 100.
QtyEdgeTexts ==
    { <<9>> \o Text(<<"1">>),
      <<8195>> \o Text(<<"1">>),
      Text(<<"5","%">>) \o <<10>>,
      <<65297, 65296, 65296>> \o Text(<<"%">>),
      Text(<<"1","e","-","1","0","0","0","0","0","0","0","0","0">>),
      Text(<<"1","0","0","0","0","0","0","0","0","0","e","-","3","3","3">>),
      Text(<<"3","e","-","3","2","4">>),
      Text(<<"1","0","0",".","0","0","0","0","0","0","0","0","0","0","0","0","0","0","1","%">>),
      Text(<<"1","0","0",".","0","0","0","0","0","0","0","0","0","0","0","0","0","1","%">>) }

QtyTexts == TextsUpTo(MaxQtyLen) \cup QtySamples \cup Range(qty_presets) \cup QtyEdgeTexts

AllSymbols == UNION { Range(trading_pairs[t]) : t \in DOMAIN trading_pairs }

----------------------------------------------------------------------------
(* The events of the main loop.  Tk runs one handler at a time: no event is *)
(* handled while send_webhook is inside requests.post.                      *)

Idle == pc = "idle"

Edit(v) ==
    /\ variables' = v
    /\ lastEvent' = Event("edit", InitVariables)
    /\ dialog' = NoDialog
    /\ UNCHANGED <<widgets, pc, payload>>

SelectExchange ==
    /\ Idle
    /\ \E e \in Range(exchange_values) : Edit([variables EXCEPT !.exchange_var = e])

\* The type dropdown sets type_var and raises <<ComboboxSelected>>.
SelectType ==
    /\ Idle
    /\ \E t \in Range(type_values) :
         LET r == on_type_change([variables EXCEPT !.type_var = t], widgets)
         IN  /\ variables' = r.v
             /\ widgets' = r.w
             /\ lastEvent' = Event("type_change", variables)
    /\ dialog' = NoDialog
    /\ UNCHANGED <<pc, payload>>

SelectSymbol ==
    /\ Idle
    /\ \E sym \in Range(widgets.symbol_values) :
         Edit([variables EXCEPT !.symbol_var = sym])

SelectSide ==
    /\ Idle
    /\ widgets.side_state # "disabled"
    /\ \E sd \in Range(side_values) : Edit([variables EXCEPT !.side_var = sd])

TypeQuantity ==
    /\ Idle
    /\ widgets.qty_state # "disabled"
    /\ \E q \in QtySamples : Edit([variables EXCEPT !.qty_var = q])

\* Lines 118-119: the preset dropdown writes qty_var itself.
SelectQtyPreset ==
    /\ Idle
    /\ \E q \in PresetInputs : Edit([variables EXCEPT !.qty_var = q])

SelectMarginMode ==
    /\ Idle
    /\ widgets.margin_mode_state # "disabled"
    /\ \E m \in Range(margin_mode_values) :
         Edit([variables EXCEPT !.margin_mode_var = m])

SelectLeverage ==
    /\ Idle
    /\ widgets.leverage_state # "disabled"
    /\ \E l \in LeverageInputs : Edit([variables EXCEPT !.leverage_var = l])

\* The checkbutton flips close_position_var and runs its command.
ToggleClosePosition ==
    /\ Idle
    /\ LET r == on_close_position_toggle(
                    [variables EXCEPT !.close_position_var = ~variables.close_position_var],
                    widgets)
       IN  /\ variables' = r.v
           /\ widgets' = r.w
    /\ lastEvent' = Event("toggle", variables)
    /\ dialog' = NoDialog
    /\ UNCHANGED <<pc, payload>>

ClearForm ==
    /\ Idle
    /\ LET r == clear_form(variables, widgets)
       IN  /\ variables' = r.v
           /\ widgets' = r.w
    /\ lastEvent' = Event("clear", variables)
    /\ dialog' = NoDialog
    /\ UNCHANGED <<pc, payload>>

SendWebhook ==
    /\ Idle
    /\ LET r == SendWebhookCall(variables)
       IN  /\ pc' = r.pc
           /\ payload' = r.payload
           /\ dialog' = r.dialog
    /\ lastEvent' = Event("submit", variables)
    /\ UNCHANGED <<variables, widgets>>

\* A plausible slip: a retry loop that posts the document again after a
\* failure.
AfterResponse_Retry(r, doc) ==
    IF r.kind = "ok"
    THEN [ pc |-> "idle", payload |-> NoPayload, dialog |-> ResponseDialog(r) ]
    ELSE [ pc |-> "sending", payload |-> doc, dialog |-> ResponseDialog(r) ]

\* Lines 288-299: whatever requests.post did, the handler shows one dialog
\* and returns; the document is dropped.
AfterResponse(r, doc) ==
    [ pc |-> "idle", payload |-> NoPayload, dialog |-> ResponseDialog(r) ]

ResponseOp(r) ==
    CASE r.kind = "ok" -> "response_ok"
      [] r.kind = "not_ok" -> "response_not_ok"
      [] r.kind = "exception" -> "response_exception"

\* requests.post returns or raises; the handler reports and returns.
Response ==
    /\ pc = "sending"
    /\ \E r \in Responses :
         LET a == AfterResponse(r, payload)
         IN  /\ pc' = a.pc
             /\ payload' = a.payload
             /\ dialog' = a.dialog
             /\ lastEvent' = Event(ResponseOp(r), variables)
    /\ UNCHANGED <<variables, widgets>>

Next ==
    \/ SelectExchange
    \/ SelectType
    \/ SelectSymbol
    \/ SelectSide
    \/ TypeQuantity
    \/ SelectQtyPreset
    \/ SelectMarginMode
    \/ SelectLeverage
    \/ ToggleClosePosition
    \/ ClearForm
    \/ SendWebhook
    \/ Response

Spec == Init /\ [][Next]_vars

----------------------------------------------------------------------------
(* validate_input and the payload construction on arbitrary forms: Init    *)
(* draws the form from bounded sets, reachable or not, and send_webhook    *)
(* is applied to it.                                                       *)

\* Every combination of the fields validate_input reads, with sample
\* quantities.
FieldForms ==
    [ exchange_var       : {""} \cup Range(exchange_values),
      type_var           : {""} \cup Range(type_values),
      symbol_var         : {""} \cup AllSymbols,
      side_var           : {""} \cup Range(side_values),
      qty_var            : QtySamples \cup {qty_presets[3]},
      margin_mode_var    : {"cash", "cross"},
      leverage_var       : {<< >>, Text(<<"1","0">>)},
      close_position_var : BOOLEAN ]

\* Every quantity text of the bound on an otherwise complete form.
QuantityForms ==
    [ exchange_var       : {"okx"},
      type_var           : {"spot", "perps"},
      symbol_var         : {"BTC-USDT", "BTC-USDT-SWAP"},
      side_var           : {"buy"},
      qty_var            : QtyTexts,
      margin_mode_var    : {"cross"},
      leverage_var       : {Text(<<"1","0">>)},
      close_position_var : BOOLEAN ]

InitValidate ==
    /\ variables \in FieldForms \cup QuantityForms
    /\ widgets = InitWidgets
    /\ pc = "idle"
    /\ payload = NoPayload
    /\ dialog = NoDialog
    /\ lastEvent = Event("init", InitVariables)

NextValidate == SendWebhook \/ Response

SpecValidate == InitValidate /\ [][NextValidate]_vars

----------------------------------------------------------------------------
(* Properties *)

SpotDefaults ==
    /\ variables.margin_mode_var = "cash"
    /\ PyInt(variables.leverage_var) = [ok |-> TRUE, val |-> 1]
    /\ widgets.margin_mode_state = "disabled"
    /\ widgets.leverage_state = "disabled"

MarginDefaults ==
    /\ variables.margin_mode_var = "cross"
    /\ PyInt(variables.leverage_var) = [ok |-> TRUE, val |-> 10]
    /\ widgets.margin_mode_state = "readonly"
    /\ widgets.leverage_state = "readonly"

CurrentPairs == Range(TradingPairsGet(variables.type_var))

\* C1: in every reachable state, a form whose trade type is spot has margin
\* mode cash, leverage 1 and both margin controls locked.
C1_SpotIsCashAndLocked == variables.type_var = "spot" => SpotDefaults

\* C2: in every reachable state the selected symbol is in the symbol list
\* of the selected trade type.
C2_SymbolInCurrentList == variables.symbol_var \in CurrentPairs

\* C3: right after a trade-type change the margin settings are the new
\* type's defaults, whatever they were before: cash, 1 and locked for spot;
\* cross, 10 and editable for perps and invperps.
C3_TypeChangeSetsDefaults ==
    lastEvent.op = "type_change" =>
        /\ variables.type_var \in Range(type_values)
        /\ variables.type_var = "spot" => SpotDefaults
        /\ variables.type_var # "spot" => MarginDefaults

\* C3 happens: perps to invperps from isolated margin and a leverage the
\* user chose.
C3_Witness ==
    /\ lastEvent.op = "type_change"
    /\ lastEvent.before.type_var = "perps"
    /\ lastEvent.before.margin_mode_var = "isolated"
    /\ lastEvent.before.leverage_var = Text(<<"2">>)
    /\ variables.type_var = "invperps"

\* C4: every trade type has a non-empty symbol list, and right after a
\* trade-type change the selected symbol is in the new type's list.
C4_TypeChangeSymbolInList ==
    /\ \A t \in Range(type_values) : TradingPairsGet(t) # << >>
    /\ lastEvent.op = "type_change" => variables.symbol_var \in CurrentPairs

\* C4 happens: a change to spot from a perps symbol that spot does not list.
C4_Witness ==
    /\ lastEvent.op = "type_change"
    /\ variables.type_var = "spot"
    /\ lastEvent.before.symbol_var = "ETH-USD-SWAP"
    /\ variables.symbol_var \in CurrentPairs

\* C5 as stated: a trade-type change selects the first symbol of the new
\* list only if the selected symbol is not in that list, and keeps a symbol
\* that is in it.
C5_SymbolKeptWhenListed ==
    lastEvent.op = "type_change" =>
        variables.symbol_var =
            IF lastEvent.before.symbol_var \in CurrentPairs
            THEN lastEvent.before.symbol_var
            ELSE TradingPairsGet(variables.type_var)[1]

\* C5 amended: a trade-type change always selects the first symbol of the
\* new type's list, also when the symbol selected before is in that list.
C5_SymbolAlwaysFirst ==
    lastEvent.op = "type_change" =>
        variables.symbol_var = TradingPairsGet(variables.type_var)[1]

\* C5 happens: ETH-USD-SWAP under perps, then invperps, which lists it.
C5_Witness ==
    /\ lastEvent.op = "type_change"
    /\ lastEvent.before.type_var = "perps"
    /\ lastEvent.before.symbol_var = "ETH-USD-SWAP"
    /\ variables.type_var = "invperps"
    /\ variables.symbol_var = "BTC-USD-SWAP"

\* C6: a close-position toggle changes no value of the form but the flag,
\* and a toggle that ends with the flag off leaves the side and quantity
\* controls editable.
C6_ToggleKeepsValues ==
    lastEvent.op = "toggle" =>
        /\ variables = [ lastEvent.before EXCEPT
                           !.close_position_var = ~lastEvent.before.close_position_var ]
        /\ ~variables.close_position_var =>
               widgets.side_state = "readonly" /\ widgets.qty_state = "normal"

\* C6 happens: the flag is off again and the side and quantity entered
\* before closing are still there.
C6_Witness ==
    /\ lastEvent.op = "toggle"
    /\ lastEvent.before.close_position_var
    /\ ~variables.close_position_var
    /\ variables.side_var = "sell"
    /\ variables.qty_var = Text(<<"1",".","5">>)
    /\ widgets.side_state = "readonly"

ValidationError(msg) ==
    /\ dialog.kind = "error"
    /\ dialog.title = "Validation Error"
    /\ dialog.message = msg
    /\ pc = "idle"

ValidationAccepted == dialog.title # "Validation Error"

QuantityMessages == {MsgPercentRange, MsgPercentFormat, MsgQuantityRange, MsgQuantityFormat}

\* C7: a submit reports the first failing check in the order exchange, trade
\* type, symbol, then, when not closing, side, empty quantity, quantity
\* value or format, and nothing else; validation leaves the form as it was.
C7_FirstFailingCheck ==
    lastEvent.op = "submit" =>
        LET v == variables
            set3 == v.exchange_var # "" /\ v.type_var # "" /\ v.symbol_var # ""
        IN  /\ v = lastEvent.before
            /\ v.exchange_var = "" => ValidationError(MsgExchange)
            /\ v.exchange_var # "" /\ v.type_var = "" => ValidationError(MsgType)
            /\ v.exchange_var # "" /\ v.type_var # "" /\ v.symbol_var = ""
                 => ValidationError(MsgSymbol)
            /\ set3 /\ v.close_position_var => ValidationAccepted
            /\ set3 /\ ~v.close_position_var /\ v.side_var = ""
                 => ValidationError(MsgSide)
            /\ set3 /\ ~v.close_position_var /\ v.side_var # "" /\ v.qty_var = << >>
                 => ValidationError(MsgQuantity)
            /\ set3 /\ ~v.close_position_var /\ v.side_var # "" /\ v.qty_var # << >>
                 => \/ ValidationAccepted
                    \/ \E m \in QuantityMessages : ValidationError(m)

\* C7 happens: no exchange, and nothing else valid either.
C7_Witness ==
    /\ lastEvent.op = "submit"
    /\ variables.exchange_var = ""
    /\ variables.type_var = ""
    /\ variables.symbol_var = ""
    /\ variables.side_var = ""
    /\ variables.qty_var = Text(<<"a","b","c">>)
    /\ ~variables.close_position_var
    /\ ValidationError(MsgExchange)

\* The fields of the document that come from the form, read back.
PayloadMatchesForm ==
    /\ payload.exchange = variables.exchange_var
    /\ payload.symbol = variables.symbol_var
    /\ payload.type = variables.type_var
    /\ payload.marginMode = variables.margin_mode_var
    /\ "leverage" \in DOMAIN payload => payload.leverage = PyInt(variables.leverage_var).val
    /\ "side" \in DOMAIN payload => payload.side = variables.side_var
    /\ "qty" \in DOMAIN payload => payload.qty = variables.qty_var
    /\ ("closePosition" \in DOMAIN payload) = variables.close_position_var

\* C8: a document is with the transport only in a submit whose validation
\* accepted, it is built from the form that was validated, which has not
\* changed since; a submit whose validation fails sends nothing and leaves
\* the form as it was.
C8_SendOnlyValidated ==
    /\ pc = "sending" =>
          /\ lastEvent.op = "submit"
          /\ validate_input(variables) = <<TRUE, "">>
          /\ variables = lastEvent.before
          /\ PayloadMatchesForm
    /\ pc # "sending" => DOMAIN payload = {}
    /\ lastEvent.op = "submit" /\ ~validate_input(lastEvent.before)[1] =>
          /\ pc = "idle"
          /\ variables = lastEvent.before
          /\ ValidationError(validate_input(lastEvent.before)[2])

\* C8 happens: an accepted order is with the transport.
C8_Witness ==
    /\ pc = "sending"
    /\ lastEvent.op = "submit"
    /\ ~variables.close_position_var
    /\ payload.symbol = "ETH-USDT-SWAP"
    /\ payload.qty = Text(<<"7","5","%">>)

\* C9 as stated: the document built on submit has no authToken field.
C9_NoCredentialInDocument == pc = "sending" => "authToken" \notin DOMAIN payload


\* C10: every document has exchange, symbol, type and marginMode, and has
\* leverage exactly when its type is not spot, as an integer.
C10_LeverageIffNotSpot ==
    pc = "sending" =>
        /\ {"exchange", "symbol", "type", "marginMode"} \subseteq DOMAIN payload
        /\ ("leverage" \in DOMAIN payload) <=> (payload.type # "spot")
        /\ "leverage" \in DOMAIN payload => payload.leverage \in Int

\* C10 happens: a perps document with the leverage the user chose, as a number.
C10_Witness ==
    /\ pc = "sending"
    /\ payload.type = "perps"
    /\ "leverage" \in DOMAIN payload
    /\ payload.leverage = 2


\* C11: every document has either side and qty, with qty the quantity text
\* of the form character for character, and no closePosition; or
\* closePosition = TRUE and neither side nor qty, whatever side and quantity
\* the form still holds.
C11_OrderOrClose ==
    pc = "sending" =>
        IF variables.close_position_var
        THEN /\ "closePosition" \in DOMAIN payload
             /\ payload.closePosition = TRUE
             /\ "side" \notin DOMAIN payload
             /\ "qty" \notin DOMAIN payload
        ELSE /\ "closePosition" \notin DOMAIN payload
             /\ {"side", "qty"} \subseteq DOMAIN payload
             /\ payload.side = variables.side_var
             /\ payload.qty = variables.qty_var

\* C11 happens: a close order is sent while the form still holds a side and
\* a quantity that would not validate.
C11_Witness ==
    /\ pc = "sending"
    /\ variables.close_position_var
    /\ variables.side_var = "buy"
    /\ variables.qty_var = Text(<<"1","5","0","%">>)
    /\ "closePosition" \in DOMAIN payload


\* A submit that got as far as the quantity value and format checks.
QuantityChecked ==
    /\ lastEvent.op = "submit"
    /\ ~variables.close_position_var
    /\ variables.exchange_var # "" /\ variables.type_var # "" /\ variables.symbol_var # ""
    /\ variables.side_var # ""
    /\ variables.qty_var # << >>

\* The quantity rule of the data model on a text: a %-token whose numeric
\* prefix v has 0 < v <= 100, or a plain token that is a number v > 0.
IsQuantitySpec(q) ==
    IF EndsWithPercent(q)
    THEN LET v == PyFloat(SubSeq(q, 1, Len(q) - 1))
         IN  v.ok /\ FloatGtZero(v) /\ FloatLeHundred(v)
    ELSE LET v == PyFloat(q)
         IN  v.ok /\ FloatGtZero(v)

\* C12: a non-empty quantity is accepted exactly when it is a %-token with
\* 0 < v <= 100 or a plain number v > 0; a numeric %-token out of range is
\* rejected as a percentage out of range, a plain number v <= 0 as a
\* quantity not greater than 0; for every numeric token, nan, inf and -0
\* included.
C12_AcceptedIffQuantitySpec ==
    QuantityChecked =>
        LET q == variables.qty_var
            numeric == PyFloat(IF EndsWithPercent(q) THEN SubSeq(q, 1, Len(q) - 1) ELSE q).ok
        IN  /\ ValidationAccepted <=> IsQuantitySpec(q)
            /\ numeric /\ EndsWithPercent(q) /\ ~IsQuantitySpec(q)
                 => ValidationError(MsgPercentRange)
            /\ numeric /\ ~EndsWithPercent(q) /\ ~IsQuantitySpec(q)
                 => ValidationError(MsgQuantityRange)


\* C13: with closePosition set, a submit is accepted exactly when exchange,
\* trade type and symbol are set, whatever side and quantity hold; the
\* document then sent has closePosition = TRUE, no side and no qty, and
\* leverage when the type is not spot.
C13_ClosingSkipsOrderChecks ==
    lastEvent.op = "submit" /\ variables.close_position_var =>
        /\ ValidationAccepted <=>
              /\ variables.exchange_var # ""
              /\ variables.type_var # ""
              /\ variables.symbol_var # ""
        /\ ~ValidationAccepted => pc = "idle" /\ dialog.message \notin {MsgSide, MsgQuantity}
        /\ pc = "sending" =>
              /\ "closePosition" \in DOMAIN payload /\ payload.closePosition
              /\ DOMAIN payload \cap {"side", "qty"} = {}
              /\ payload.type # "spot" => "leverage" \in DOMAIN payload

\* C13 happens: okx, perps, a perps symbol, no side, a stale quantity that
\* would not validate, closing: accepted and sent with leverage.
C13_Witness ==
    /\ lastEvent.op = "submit"
    /\ variables.close_position_var
    /\ variables.exchange_var = "okx"
    /\ variables.type_var = "perps"
    /\ variables.symbol_var = "BTC-USDT-SWAP"
    /\ variables.side_var = ""
    /\ variables.qty_var = Text(<<"1","5","0","%">>)
    /\ pc = "sending"
    /\ "leverage" \in DOMAIN payload
    /\ "closePosition" \in DOMAIN payload


SymbolChecked ==
    /\ lastEvent.op = "submit"
    /\ variables.exchange_var # ""
    /\ variables.type_var # ""

\* C14 as stated: with exchange and trade type set, an empty symbol is
\* rejected as missing and a symbol outside the trade type's list is
\* rejected too; no symbol outside the list is accepted.
C14_SymbolOutsideListRejected ==
    SymbolChecked =>
        /\ variables.symbol_var = "" => ValidationError(MsgSymbol)
        /\ variables.symbol_var # "" /\ variables.symbol_var \notin CurrentPairs
             => ~ValidationAccepted /\ pc = "idle"


\* The quantity text of the form is not numeric: float() raises on it, or
\* on what precedes its trailing %.
NonNumericQuantity ==
    LET q == variables.qty_var
    IN  ~PyFloat(IF EndsWithPercent(q) THEN SubSeq(q, 1, Len(q) - 1) ELSE q).ok

\* C15 as stated: non-numeric quantity text is rejected with one and the
\* same reason, the invalid quantity format, with a trailing % and without.
C15_OneFormatReason ==
    QuantityChecked /\ NonNumericQuantity => ValidationError(MsgQuantityFormat)


\* C16: in every reachable state the side and quantity controls are enabled
\* exactly when closePosition is off.
C16_ActivationFollowsFlag ==
    /\ (widgets.side_state # "disabled") = ~variables.close_position_var
    /\ (widgets.qty_state # "disabled") = ~variables.close_position_var

UserEvent ==
    \/ SelectExchange \/ SelectType \/ SelectSymbol \/ SelectSide
    \/ TypeQuantity \/ SelectQtyPreset \/ SelectMarginMode \/ SelectLeverage
    \/ ToggleClosePosition \/ ClearForm \/ SendWebhook

\* C17: while a send is in flight the form still handles user events.
C17_ResponsiveWhileSending == pc = "sending" => ENABLED UserEvent


FailureOps == {"response_not_ok", "response_exception"}

\* C18: a send is in flight only right after a submit, never after a
\* response; a failed send is reported in an error dialog with the detail
\* the transport gave, the handler is back in the main loop with no document
\* left, and the form is as it was when it was submitted.
C18_NoRetry ==
    /\ pc = "sending" => lastEvent.op = "submit"
    /\ lastEvent.op \in FailureOps =>
          /\ pc = "idle"
          /\ DOMAIN payload = {}
          /\ dialog.kind = "error" /\ dialog.title = "Error"
          /\ dialog.detail \in { r.text : r \in { x \in Responses : x.kind # "ok" } }
          /\ variables = lastEvent.before
          /\ validate_input(variables) = <<TRUE, "">>
    /\ lastEvent.op = "response_ok" => pc = "idle" /\ dialog.kind = "info"

\* C18 happens: the endpoint answered with a non-success status.
C18_Witness ==
    /\ lastEvent.op = "response_not_ok"
    /\ pc = "idle"
    /\ dialog.message = "Failed to send order: "
    /\ variables.side_var = "sell"


LeverageNumbers == { PyInt(leverage_values[i]).val : i \in DOMAIN leverage_values }

\* C19: every document sent has a type of the type list and a symbol of that
\* type's list; marginMode cash when the type is spot; otherwise marginMode
\* cross or isolated and a positive leverage of the leverage list, which
\* int() converted without raising.
C19_SentDocumentsWellFormed ==
    /\ pc = "sending" =>
          /\ payload.type \in Range(type_values)
          /\ payload.symbol \in Range(TradingPairsGet(payload.type))
          /\ payload.type = "spot" => payload.marginMode = "cash"
          /\ payload.type # "spot" =>
                /\ payload.marginMode \in Range(margin_mode_values)
                /\ "leverage" \in DOMAIN payload
                /\ payload.leverage \in LeverageNumbers
                /\ payload.leverage > 0
    /\ dialog.kind # "traceback"
    /\ PyInt(variables.leverage_var).ok

\* C19 happens: an invperps order with isolated margin and a leverage the
\* user chose.
C19_Witness ==
    /\ pc = "sending"
    /\ payload.type = "invperps"
    /\ payload.symbol = "ETH-USD-SWAP"
    /\ payload.marginMode = "isolated"
    /\ payload.leverage = 2


\* The form clear_form leaves: everything empty, the flag off, and the
\* margin settings on_type_change gives the empty trade type.
FormAfterClear ==
    [ exchange_var       |-> "",
      type_var           |-> "",
      symbol_var         |-> "",
      side_var           |-> "",
      qty_var            |-> << >>,
      margin_mode_var    |-> "cross",
      leverage_var       |-> Text(<<"1","0">>),
      close_position_var |-> FALSE ]

\* C20: clear_form leaves the empty form from any state; a submit of that
\* form is rejected for the missing exchange and sends nothing; whatever is
\* sent has an exchange and a trade type, selected since.
C20_ClearThenSubmitRejected ==
    /\ lastEvent.op = "clear" =>
          /\ variables = FormAfterClear
          /\ widgets.symbol_values = << >>
          /\ pc = "idle" /\ DOMAIN payload = {}
    /\ lastEvent.op = "submit" /\ lastEvent.before = FormAfterClear =>
          /\ ValidationError(MsgExchange)
          /\ DOMAIN payload = {}
          /\ variables = FormAfterClear
    /\ pc = "sending" =>
          /\ payload.exchange \in Range(exchange_values)
          /\ payload.type \in Range(type_values)

\* C20 happens: the cleared form was submitted and rejected.
C20_Witness ==
    /\ lastEvent.op = "submit"
    /\ variables = FormAfterClear
    /\ ValidationError(MsgExchange)

====
